---------------------------- MODULE Spec2Model ----------------------------
(***************************************************************************)
(* Model of the chat renderers of keethesh/keethesh:                       *)
(*   .github/scripts/ascii_engine.py   (terminal-style text canvas)        *)
(*   scripts/render_chat.py            (bubble-style text canvas)          *)
(*   .github/scripts/render_chat.py + html_engine.py (HTML pipeline)       *)
(*                                                                         *)
(* A Python string is a sequence of code points.  A code point is one of   *)
(* the classes below; only its class matters to the code modelled here     *)
(* (its column width, whether it is whitespace, whether it is the line     *)
(* separator).                                                             *)
(***************************************************************************)
EXTENDS Integers, Sequences, FiniteSets, TLC

VARIABLES
    pc,        \* position of the call under study: "start" or "done"
    txt,       \* _clip: the text argument
    width,     \* _clip: the width argument
    clipped,   \* _clip: the returned string
    content,      \* _create_message_bubble: the message body
    username,     \* _create_message_bubble: the author login
    is_owner,     \* _create_message_bubble: the owner flag
    chat_width,   \* the canvas width
    max_lines,    \* the per-message line limit
    issue_number, \* the issue number (a string)
    wrapped,      \* _create_message_bubble: the local `wrapped` after the wrap loop
    lines,        \* _create_message_bubble: the returned list of lines
    repo_path_valid, \* whether REPO_OWNER / REPO_NAME pass get_repo_path's checks
    html,         \* format_message_content: the returned markup
    config,       \* the outcome of constructing a configuration object
    comments,     \* the renderers' list of comments
    title,        \* the chat title
    out,          \* the renderer's outcome: the exception raised if any, the
                  \* returned string, the indices of its frame lines and
                  \* the indices of the comments it shows
    max_messages, \* ChatConfig.max_messages
    bubble_width, \* ChatConfig.bubble_width
    owner_lines,   \* the bubble of a message rendered with is_owner = True
    visitor_lines, \* the bubble of the same message rendered with is_owner = False
    phrase,        \* the participant text a header chose
    recent_comments, \* the list _get_recent_comments returned
    variant,       \* which render_chat.py runs: "scripts" or "github"
    env_token,     \* GITHUB_TOKEN in the environment
    github_token,  \* GroupChatRenderer.github_token
    max_retries,   \* ChatConfig.max_retries
    retry_delay,   \* ChatConfig.retry_delay
    attempt,       \* fetch_issue_comments: the loop variable
    requests,      \* the number of session.get calls made so far
    sleeps,        \* the arguments of the time.sleep calls made so far
    outcomes,      \* how each session.get call so far has ended
    result,        \* what fetch_issue_comments returned
    session,       \* the renderer's requests.Session: "none", "open", "closed"
    failure,       \* main: what went wrong during the run, if anything
    written,       \* main: whether the output file was written
    exit_status,   \* the exit status of the process
    readme,        \* update_readme: README.md before the call
    chat,          \* update_readme: the chat_content argument
    readme_after,  \* update_readme: README.md after the call
    returned,      \* update_readme: the returned value
    sanitized_message \* _sanitize_message: the returned string

clipVars == <<txt, width, clipped>>
bubbleVars == <<content, username, is_owner, wrapped, lines>>
cfgVars == <<chat_width, max_lines, issue_number>>
htmlVars == <<repo_path_valid, html, config>>
chatVars == <<comments, title, out, max_messages, bubble_width>>
auxVars == <<owner_lines, visitor_lines, phrase, recent_comments>>
fetchVars == <<variant, env_token, github_token, max_retries, retry_delay,
               attempt, requests, sleeps, outcomes, result>>
mainVars == <<session, failure, written, exit_status>>
readmeVars == <<readme, chat, readme_after, returned>>
sanVars == <<sanitized_message>>
runVars == <<fetchVars, mainVars, readmeVars, sanVars>>
vars == <<pc, clipVars, bubbleVars, cfgVars, htmlVars, chatVars, auxVars, runVars>>

\* the variables of a component that a specification does not exercise
ClipIdle == txt = <<>> /\ width = 0 /\ clipped = <<>>
BubbleIdle ==
    /\ content = <<>> /\ username = <<>> /\ is_owner = FALSE
    /\ wrapped = <<>> /\ lines = <<>>
CfgIdle == chat_width = 0 /\ max_lines = 0 /\ issue_number = <<>>
NoHtml == [kind |-> "none"]
NoConfig == [raised |-> "none", max_lines_per_message |-> 0]
HtmlIdle == repo_path_valid = TRUE /\ html = NoHtml /\ config = NoConfig
NoOut == [raised |-> "none", text |-> <<>>, frame |-> {}, shown |-> <<>>]
ChatIdle ==
    /\ comments = <<>> /\ title = <<>> /\ out = NoOut
    /\ max_messages = 0 /\ bubble_width = 0

FetchIdle ==
    /\ variant = "none" /\ env_token = <<>> /\ github_token = <<>>
    /\ max_retries = 0 /\ retry_delay = 0 /\ attempt = 0 /\ requests = 0
    /\ sleeps = <<>> /\ outcomes = <<>> /\ result = "none"
MainIdle ==
    /\ session = "none" /\ failure = "none" /\ written = FALSE
    /\ exit_status = 0
ReadmeIdle ==
    /\ readme = <<>> /\ chat = <<>> /\ readme_after = <<>> /\ returned = FALSE
SanIdle == sanitized_message = <<>>
RunIdle == FetchIdle /\ MainIdle /\ ReadmeIdle /\ SanIdle

NoPhrase == [count_shown |-> FALSE, noun |-> "none"]
AuxIdle ==
    /\ owner_lines = <<>> /\ visitor_lines = <<>>
    /\ phrase = NoPhrase /\ recent_comments = <<>>

----------------------------------------------------------------------------
(* Code points *)

NARROW == "a"    \* a printable narrow code point, wcwidth 1
WIDE   == "W"    \* a wide code point (CJK, emoji), wcwidth 2
ZERO   == "z"    \* a combining / zero-width mark, wcwidth 0
UNMEAS == "u"    \* a control code point other than whitespace, wcwidth -1
SPACE  == " "    \* U+0020
NL     == "n"    \* the line separator "\n", a control code point, wcwidth -1
ELLIPSIS == "e"  \* U+2026, wcwidth 1
BAR    == "b"    \* a frame character ("|", "+", "-"), wcwidth 1

\* the code points an input string is drawn from
InChars == {NARROW, WIDE, ZERO, UNMEAS, SPACE}

\* bounds of the model
MaxLen == 3
MaxWidth == 4

RECURSIVE StringsUpTo(_, _)
StringsUpTo(chars, n) ==
    IF n = 0 THEN {<<>>}
    ELSE LET shorter == StringsUpTo(chars, n - 1)
         IN  shorter \cup {Append(s, c) : s \in {t \in shorter : Len(t) = n - 1}, c \in chars}

\* " " * n  (the empty string when n <= 0)
Spaces(n) == [i \in 1..n |-> SPACE]

\* ch * n for a frame character
Repeat(ch, n) == [i \in 1..n |-> ch]

----------------------------------------------------------------------------
(* wcwidth.wcswidth and ascii_engine.visual_width *)

Wcwidth(c) ==
    CASE c = WIDE   -> 2
      [] c = ZERO   -> 0
      [] c = UNMEAS -> -1
      [] c = NL     -> -1
      [] OTHER      -> 1

\* the sum of the widths of the first n code points of s
RECURSIVE SumWidth(_, _)
SumWidth(s, n) == IF n = 0 THEN 0 ELSE Wcwidth(s[n]) + SumWidth(s, n - 1)

\* wcswidth: -1 as soon as one code point is unmeasurable, else the sum
Wcswidth(s) ==
    IF \E i \in 1..Len(s) : Wcwidth(s[i]) < 0 THEN -1 ELSE SumWidth(s, Len(s))

\* "width if width and width > 0 else len(txt)"
visual_width(s) ==
    LET w == Wcswidth(s) IN IF w # 0 /\ w > 0 THEN w ELSE Len(s)

----------------------------------------------------------------------------
(* ascii_engine._clip *)

\* the for loop of _clip: the prefix kept before the ellipsis
RECURSIVE ClipLoop(_, _, _, _)
ClipLoop(s, i, truncated, w) ==
    IF i > Len(s) THEN truncated
    ELSE IF visual_width(truncated \o <<s[i], ELLIPSIS>>) > w THEN truncated
    ELSE ClipLoop(s, i + 1, Append(truncated, s[i]), w)

_clip(s, w) ==
    LET vw == visual_width(s)
    IN  IF vw <= w
        THEN s \o Spaces(w - vw)
        ELSE IF w >= 1
             THEN LET truncated == ClipLoop(s, 1, <<>>, w)
                  IN  truncated \o <<ELLIPSIS>>
                         \o Spaces(w - visual_width(truncated \o <<ELLIPSIS>>))
             ELSE <<>>

----------------------------------------------------------------------------
(* Specification SpecClip: one call of _clip on a drawn input *)

InitClip ==
    /\ pc = "start"
    /\ AuxIdle /\ RunIdle
    /\ txt \in StringsUpTo(InChars, MaxLen)
    /\ width \in 0..MaxWidth
    /\ clipped = <<>>
    /\ BubbleIdle /\ CfgIdle /\ HtmlIdle /\ ChatIdle

ClipCall ==
    /\ pc = "start"
    /\ clipped' = _clip(txt, width)
    /\ pc' = "done"
    /\ UNCHANGED <<auxVars, runVars>>
    /\ UNCHANGED <<txt, width, bubbleVars, cfgVars, htmlVars, chatVars>>

NextClip == ClipCall

SpecClip == InitClip /\ [][NextClip]_vars

----------------------------------------------------------------------------
(* C2: clip exactness.  For every string s and every width w >= 0,         *)
(* visual_width(_clip(s, w)) = w.                                          *)
C2_ClipExact ==
    pc = "done" => visual_width(clipped) = width

----------------------------------------------------------------------------
(* Python string helpers *)

\* str.isspace for the code points of the model
IsWs(c) == c \in {SPACE, NL}

\* a string that str.strip() empties (the empty string included)
IsBlank(s) == \A i \in 1..Len(s) : IsWs(s[i])

RECURSIVE LStrip(_)
LStrip(s) == IF s # <<>> /\ IsWs(Head(s)) THEN LStrip(Tail(s)) ELSE s

RECURSIVE RStrip(_)
RStrip(s) ==
    IF s # <<>> /\ IsWs(s[Len(s)]) THEN RStrip(SubSeq(s, 1, Len(s) - 1)) ELSE s

\* str.strip()
Strip(s) == RStrip(LStrip(s))

\* s[:k]
SliceTo(s, k) ==
    IF k >= 0 THEN SubSeq(s, 1, IF k < Len(s) THEN k ELSE Len(s))
    ELSE SubSeq(s, 1, Len(s) + k)

\* s[k:] for k >= 0
SliceFrom(s, k) == SubSeq(s, k + 1, Len(s))

\* s.split(sep) for a one-code-point separator: the pieces of s from index
\* `from` on, cut at each occurrence of sep (always at least one piece)
RECURSIVE SplitAcc(_, _, _)
SplitAcc(s, sep, from) ==
    LET later == {i \in from..Len(s) : s[i] = sep}
    IN  IF later = {} THEN << SubSeq(s, from, Len(s)) >>
        ELSE LET i == CHOOSE k \in later : \A j \in later : k <= j
             IN  << SubSeq(s, from, i - 1) >> \o SplitAcc(s, sep, i + 1)

Split(s, sep) == SplitAcc(s, sep, 1)

\* "".join(parts)
RECURSIVE Concat(_)
Concat(parts) == IF parts = <<>> THEN <<>> ELSE Head(parts) \o Concat(Tail(parts))

\* sep.join(parts) for a one-code-point separator
RECURSIVE Join(_, _)
Join(parts, sep) ==
    IF parts = <<>> THEN <<>>
    ELSE IF Len(parts) = 1 THEN Head(parts)
    ELSE Head(parts) \o <<sep>> \o Join(Tail(parts), sep)

\* the code points of s that are not whitespace, in order
RECURSIVE NonWs(_)
NonWs(s) ==
    IF s = <<>> THEN <<>>
    ELSE IF IsWs(Head(s)) THEN NonWs(Tail(s)) ELSE <<Head(s)>> \o NonWs(Tail(s))

----------------------------------------------------------------------------
(* textwrap.wrap, as called by the renderers.  The code points of the      *)
(* model hold no hyphen, so break_on_hyphens changes nothing and both of   *)
(* textwrap's chunk expressions split a text into its maximal runs of      *)
(* whitespace and of non-whitespace.                                       *)

\* TextWrapper._split
RECURSIVE ChunksAcc(_, _)
ChunksAcc(s, acc) ==
    IF s = <<>> THEN acc
    ELSE LET c == Head(s)
             n == Len(acc)
         IN  IF n > 0 /\ (IsWs(acc[n][1]) <=> IsWs(c))
             THEN ChunksAcc(Tail(s), [acc EXCEPT ![n] = Append(@, c)])
             ELSE ChunksAcc(Tail(s), Append(acc, <<c>>))

Chunks(s) == ChunksAcc(s, <<>>)

\* TextWrapper._munge_whitespace with replace_whitespace=True
ReplaceWhitespace(s) == [i \in 1..Len(s) |-> IF IsWs(s[i]) THEN SPACE ELSE s[i]]

\* _wrap_chunks: "while chunks: ... if cur_len + l <= width: cur_line.append(...)"
RECURSIVE FillLine(_, _, _, _)
FillLine(chunks, cur, curLen, w) ==
    IF chunks # <<>> /\ curLen + Len(Head(chunks)) <= w
    THEN FillLine(Tail(chunks), Append(cur, Head(chunks)),
                  curLen + Len(Head(chunks)), w)
    ELSE [cur |-> cur, rest |-> chunks, len |-> curLen]

\* TextWrapper._handle_long_word, called when the next chunk is longer than width
HandleLongWord(st, w, breakLong) ==
    IF st.rest # <<>> /\ Len(Head(st.rest)) > w
    THEN LET space_left == IF w < 1 THEN 1 ELSE w - st.len
             chunk == Head(st.rest)
         IN  IF breakLong
             THEN [st EXCEPT !.cur = Append(@, SliceTo(chunk, space_left)),
                             !.rest = <<SliceFrom(chunk, space_left)>> \o Tail(@)]
             ELSE IF st.cur = <<>>
                  THEN [st EXCEPT !.cur = <<chunk>>, !.rest = Tail(@)]
                  ELSE st
    ELSE st

\* TextWrapper._wrap_chunks with drop_whitespace=True, max_lines=None
RECURSIVE WrapChunks(_, _, _, _)
WrapChunks(chunks, w, breakLong, acc) ==
    IF chunks = <<>> THEN acc
    ELSE LET c1 == IF IsBlank(Head(chunks)) /\ acc # <<>> THEN Tail(chunks) ELSE chunks
             st == HandleLongWord(FillLine(c1, <<>>, 0, w), w, breakLong)
             n == Len(st.cur)
             cur == IF n > 0 /\ IsBlank(st.cur[n]) THEN SubSeq(st.cur, 1, n - 1)
                    ELSE st.cur
         IN  WrapChunks(st.rest, w, breakLong,
                        IF cur # <<>> THEN Append(acc, Concat(cur)) ELSE acc)

\* textwrap.wrap(text, width=w, break_long_words=breakLong,
\*               replace_whitespace=replaceWs, expand_tabs=False, drop_whitespace=True)
TextWrap(text, w, breakLong, replaceWs) ==
    WrapChunks(Chunks(IF replaceWs THEN ReplaceWhitespace(text) ELSE text),
               w, breakLong, <<>>)

----------------------------------------------------------------------------
(* ascii_engine._create_message_bubble *)

\* a literal of n narrow code points
Text(n) == Repeat(NARROW, n)

\* a code point of a rendering of datetime.datetime.now()
CLOCK == "c"

\* f"{current_time:%H:%M}" (n = 5) and f"{current_time:%H:%M:%S}" (n = 8)
Clock(n) == Repeat(CLOCK, n)

\* "[HH:MM] <username>@github:~/readme-chat (main)$ # " for the owner,
\* "[HH:MM] <username>@github:~$ # " for the others; HH:MM is the wall clock
base_prompt(user, owner) ==
    Text(1) \o Clock(5) \o Text(1) \o Spaces(1) \o user \o
    (IF owner
     THEN Text(21) \o Spaces(1) \o Text(7) \o Spaces(1) \o Text(1) \o Spaces(1)
     ELSE Text(10) \o Spaces(1) \o Text(1) \o Spaces(1))

\* available = max(1, chat_width - prompt_width)
Available(user, owner, cw) ==
    LET a == cw - visual_width(base_prompt(user, owner))
    IN  IF a > 1 THEN a ELSE 1

\* the paragraph loop: one "" per blank paragraph, else the wrapped paragraph
RECURSIVE WrapParagraphs(_, _)
WrapParagraphs(paragraphs, available) ==
    IF paragraphs = <<>> THEN <<>>
    ELSE (IF Strip(Head(paragraphs)) = <<>>
          THEN << <<>> >>
          ELSE TextWrap(Strip(Head(paragraphs)), available, TRUE, FALSE))
         \o WrapParagraphs(Tail(paragraphs), available)

\* "[... see more at Issue #<issue_number>] <typing...>"
SeeMore(issue) == Text(1) \o <<ELLIPSIS>> \o Text(20) \o issue \o Text(9) \o <<ELLIPSIS>> \o Text(1)

\* the truncation with slice max_lines (instead of max_lines - 1)
TruncateKeepsMaxLines(w, ml, issue) ==
    IF Len(w) > ml THEN SliceTo(w, ml) \o <<SeeMore(issue)>> ELSE w

\* "if len(wrapped) > max_lines: wrapped = wrapped[: max_lines - 1] + [indicator]"
Truncate(w, ml, issue) ==
    IF Len(w) > ml THEN SliceTo(w, ml - 1) \o <<SeeMore(issue)>> ELSE w

\* cont_prompt = ">" + " " * (prompt_width - 1)
cont_prompt(user, owner) ==
    Text(1) \o Spaces(visual_width(base_prompt(user, owner)) - 1)

\* the final loop: prompt + segment, clipped to chat_width
BubbleLines(segments, user, owner, cw) ==
    LET first == base_prompt(user, owner)
        cont == cont_prompt(user, owner)
    IN  [idx \in 1..Len(segments) |->
            _clip((IF idx = 1 THEN first ELSE cont) \o segments[idx], cw)]

\* the local `wrapped` when the wrap loop ends
BubbleWrapped(body, user, owner, cw) ==
    WrapParagraphs(Split(body, NL), Available(user, owner, cw))

_create_message_bubble(body, user, owner, cw, ml, issue) ==
    BubbleLines(Truncate(BubbleWrapped(body, user, owner, cw), ml, issue),
                user, owner, cw)

----------------------------------------------------------------------------
(* Specification SpecBubble: one call of _create_message_bubble *)

\* the code points a message body is drawn from
BodyChars == {NARROW, WIDE, SPACE, NL}

MaxLines == 3

Logins == {<<NARROW>>, <<WIDE>>}

\* canvas widths: none, the minimum, and those leaving 1..MaxWidth columns
\* after the 22-column prompt of a one-column login that is not the owner
BubbleWidths == {0, 20} \cup {22 + k : k \in 1..MaxWidth}

InitBubble ==
    /\ pc = "start"
    /\ AuxIdle /\ RunIdle
    /\ content \in StringsUpTo(BodyChars, MaxLen)
    /\ username \in Logins
    /\ is_owner \in BOOLEAN
    /\ chat_width \in BubbleWidths
    /\ max_lines \in 0..MaxLines
    /\ issue_number = <<NARROW>>
    /\ wrapped = <<>>
    /\ lines = <<>>
    /\ ClipIdle /\ HtmlIdle /\ ChatIdle

CreateMessageBubble ==
    /\ pc = "start"
    /\ wrapped' = BubbleWrapped(content, username, is_owner, chat_width)
    /\ lines' = _create_message_bubble(content, username, is_owner, chat_width,
                                       max_lines, issue_number)
    /\ pc' = "done"
    /\ UNCHANGED <<auxVars, runVars>>
    /\ UNCHANGED <<content, username, is_owner, cfgVars, clipVars, htmlVars, chatVars>>

NextBubble == CreateMessageBubble

SpecBubble == InitBubble /\ [][NextBubble]_vars

----------------------------------------------------------------------------
(* C4: every wrapped body segment of _create_message_bubble has a display  *)
(* width (columns) of at most the content budget                           *)
(* max(1, chat_width - prompt width).                                      *)
(* Stated for the supported canvas widths (>= 20) and for the segments of   *)
(* two or more code points, which a wrapper is free to cut shorter.        *)
C4_SegmentsFitBudget ==
    (pc = "done" /\ chat_width >= 20) =>
        \A i \in 1..Len(wrapped) :
            Len(wrapped[i]) >= 2 =>
                visual_width(wrapped[i]) <= Available(username, is_owner, chat_width)

\* line idx of a bubble showing segment seg
ShownAs(idx, seg) ==
    _clip((IF idx = 1 THEN base_prompt(username, is_owner)
           ELSE cont_prompt(username, is_owner)) \o seg, chat_width)

(* C7: truncation bound.  For max_lines >= 1 the bubble has at most         *)
(* max_lines lines; a body wrapped into more than max_lines lines is shown  *)
(* as its first max_lines - 1 wrapped lines followed by the one "see more   *)
(* at Issue #<issue_number>" line, and a body wrapped into at most          *)
(* max_lines lines is shown whole, in order.                                *)
C7_TruncationBound ==
    (pc = "done" /\ max_lines >= 1) =>
        /\ Len(lines) <= max_lines
        /\ IF Len(wrapped) > max_lines
           THEN /\ Len(lines) = max_lines
                /\ \A i \in 1..(max_lines - 1) : lines[i] = ShownAs(i, wrapped[i])
                /\ lines[max_lines] = ShownAs(max_lines, SeeMore(issue_number))
           ELSE /\ Len(lines) = Len(wrapped)
                /\ \A i \in 1..Len(wrapped) : lines[i] = ShownAs(i, wrapped[i])

\* a body wrapped into three lines shown under a limit of two
C7_Witness ==
    /\ pc = "done"
    /\ chat_width > 22
    /\ max_lines = 2
    /\ Len(wrapped) = 3
    /\ Len(lines) = 2
    /\ lines[2] = ShownAs(2, SeeMore(issue_number))

----------------------------------------------------------------------------
(* html_engine: escape_html, format_message_content, HtmlChatConfig;       *)
(* .github/scripts/render_chat.py: ChatConfig                              *)

LT  == "<"       \* a markup-unsafe code point
AMP == "&"       \* the entity introducer
BR  == "<br>"    \* the markup "<br>" the engine itself writes

\* html.escape per code point: an entity is one item of the result
EscapeChar(c) ==
    CASE c = LT  -> "&lt;"
      [] c = AMP -> "&amp;"
      [] OTHER   -> c

\* escape_html: "" for an empty text, else html.escape(text, quote=True)
escape_html(text) == [i \in 1..Len(text) |-> EscapeChar(text[i])]

\* str.replace('\n', '<br>')
ReplaceNL(s) == [i \in 1..Len(s) |-> IF s[i] = NL THEN BR ELSE s[i]]

\* The returned markup, by the branch taken:
\*   "empty":     "<em>Empty message</em>"
\*   "truncated": the escaped first lines, then the link to the issue
\*   "full":      the escaped text with its line breaks as <br>
\*   "error":     "<em>Error formatting message: ...</em>" (get_repo_path raised)
\* The code points of the model hold no "\r", so the two replace() calls of
\* the normalisation change nothing.
format_message_content(body, ml, issue, repo_ok) ==
    IF body = <<>> \/ Strip(body) = <<>>
    THEN [kind |-> "empty"]
    ELSE LET normalized_content == Strip(body)
             ls == Split(normalized_content, NL)
         IN  IF Len(ls) > ml /\ ml > 0
             THEN IF repo_ok
                  THEN [kind |-> "truncated",
                        text |-> escape_html(Join(SliceTo(ls, ml - 1), NL)),
                        issue |-> escape_html(issue)]
                  ELSE [kind |-> "error"]
             ELSE [kind |-> "full", text |-> ReplaceNL(escape_html(normalized_content))]

\* HtmlChatConfig(max_lines_per_message=ml): __post_init__ raises below 1
HtmlChatConfig(ml) ==
    IF ml < 1
    THEN [raised |-> "ValueError", max_lines_per_message |-> 0]
    ELSE [raised |-> "none", max_lines_per_message |-> ml]

\* ChatConfig._get_positive_int for a value that int() parses: max(1, value)
_get_positive_int(value) == IF value > 1 THEN value ELSE 1

\* ChatConfig() with MAX_LINES_PER_MESSAGE=value: the html_config it builds
ChatConfig(value) == HtmlChatConfig(_get_positive_int(value))

----------------------------------------------------------------------------
(* Specification SpecMaxLines: one call of an entry point that takes a      *)
(* per-message line limit                                                   *)

InitMaxLines ==
    /\ pc = "start"
    /\ AuxIdle /\ RunIdle
    /\ content \in StringsUpTo(BodyChars, MaxLen)
    /\ username = <<NARROW>>
    /\ is_owner \in BOOLEAN
    /\ chat_width = 22 + MaxWidth
    /\ max_lines \in 0..MaxLines
    /\ issue_number = <<NARROW>>
    /\ repo_path_valid \in BOOLEAN
    /\ wrapped = <<>>
    /\ lines = <<>>
    /\ html = NoHtml
    /\ config = NoConfig
    /\ ClipIdle /\ ChatIdle

\* ascii_engine.create_chat_interface hands max_lines to _create_message_bubble
CallCreateMessageBubble ==
    /\ pc = "start"
    /\ wrapped' = BubbleWrapped(content, username, is_owner, chat_width)
    /\ lines' = _create_message_bubble(content, username, is_owner, chat_width,
                                       max_lines, issue_number)
    /\ pc' = "bubble"
    /\ UNCHANGED <<auxVars, runVars>>
    /\ UNCHANGED <<content, username, is_owner, cfgVars, clipVars, htmlVars, chatVars>>

CallFormatMessageContent ==
    /\ pc = "start"
    /\ html' = format_message_content(content, max_lines, issue_number,
                                      repo_path_valid)
    /\ pc' = "format"
    /\ UNCHANGED <<auxVars, runVars>>
    /\ UNCHANGED <<bubbleVars, cfgVars, clipVars, repo_path_valid, config, chatVars>>

NewHtmlChatConfig ==
    /\ pc = "start"
    /\ config' = HtmlChatConfig(max_lines)
    /\ pc' = "html_config"
    /\ UNCHANGED <<auxVars, runVars>>
    /\ UNCHANGED <<bubbleVars, cfgVars, clipVars, repo_path_valid, html, chatVars>>

NewChatConfig ==
    /\ pc = "start"
    /\ config' = ChatConfig(max_lines)
    /\ pc' = "chat_config"
    /\ UNCHANGED <<auxVars, runVars>>
    /\ UNCHANGED <<bubbleVars, cfgVars, clipVars, repo_path_valid, html, chatVars>>

NextMaxLines ==
    \/ CallCreateMessageBubble
    \/ CallFormatMessageContent
    \/ NewHtmlChatConfig
    \/ NewChatConfig

SpecMaxLines == InitMaxLines /\ [][NextMaxLines]_vars

----------------------------------------------------------------------------
(* C8: a line limit of 0 is never used as it is.  Every entry point that    *)
(* takes the limit either rejects 0 with an error or gives what it gives    *)
(* for a limit of 1.                                                        *)
C8_ZeroLimitRejectedOrOne ==
    max_lines = 0 =>
        /\ pc = "bubble" =>
              lines = _create_message_bubble(content, username, is_owner,
                                             chat_width, 1, issue_number)
        /\ pc = "format" =>
              html = format_message_content(content, 1, issue_number,
                                            repo_path_valid)
        /\ pc \in {"html_config", "chat_config"} =>
              \/ config.raised = "ValueError"
              \/ config.max_lines_per_message = 1

----------------------------------------------------------------------------
(* ascii_engine._ChatCanvas and create_chat_interface.  A literal of the   *)
(* source is modelled by its length: its code points are all narrow.       *)

\* str(n) for a count
Digits(n) == Text(IF n < 10 THEN 1 ELSE 2)

\* _ChatCanvas._border: "+" + "-" * (width - 2) + "+"
_border(cw) == <<BAR>> \o Repeat(BAR, cw - 2) \o <<BAR>>

\* the meta line of the header, by participant count
HeaderMeta(n) ==
    IF n = 0 THEN Text(9) \o Clock(8) \o Text(73)
    ELSE IF n = 1 THEN Text(8) \o Clock(8) \o Text(68)
    ELSE Text(11) \o Clock(8) \o Text(3) \o Digits(n) \o Text(42)

\* the welcome prompt of the header, by participant count
HeaderWelcome(n) ==
    IF n = 0 THEN Text(72)
    ELSE IF n = 1 THEN Text(81)
    ELSE Text(40) \o Digits(n) \o Text(27)

create_header(cw, ttl, n) ==
    << _border(cw),
       <<BAR>> \o _clip(Text(12) \o Text(11) \o ttl, cw - 2) \o <<BAR>>,
       <<BAR>> \o _clip(HeaderMeta(n), cw - 2) \o <<BAR>>,
       _border(cw),
       _clip(HeaderWelcome(n), cw) >>

create_footer(cw, issue) ==
    << _clip(Text(50) \o issue \o Text(48), cw),
       _clip(Text(88), cw),
       _clip(Text(39), cw),
       _border(cw) >>

\* the lengths of the literal lines of the three fixed blocks
EmptyStateLengths == <<70, 57, 53, 0, 48, 14, 45, 0, 54, 59, 55, 53, 0, 67, 22>>
SingleMessageLengths == <<44, 51, 0, 61, 54, 51, 53, 0>>
EngagementLengths == <<0, 63, 64, 65>>

FixedBlock(lengths, cw) == [i \in 1..Len(lengths) |-> _clip(Text(lengths[i]), cw)]

\* len({c["user"]["login"] for c in comments}) if comments else 0
ParticipantCount(cs) == Cardinality({cs[i].login : i \in 1..Len(cs)})

\* the pieces of comment i (1-based) of cs: its context or spacer, then its bubble
MessagePieces(cs, i, cw, ml, issue) ==
    (IF i = 1 /\ Len(cs) = 1 THEN FixedBlock(SingleMessageLengths, cw)
     ELSE IF i > 1 THEN << _clip(<<>>, cw) >>
     ELSE <<>>)
    \o _create_message_bubble(cs[i].body, cs[i].login, cs[i].is_owner, cw, ml, issue)

RECURSIVE AllMessagePieces(_, _, _, _, _)
AllMessagePieces(cs, i, cw, ml, issue) ==
    IF i > Len(cs) THEN <<>>
    ELSE MessagePieces(cs, i, cw, ml, issue) \o AllMessagePieces(cs, i + 1, cw, ml, issue)

\* the list `pieces` when create_chat_interface joins it
ChatPieces(cs, cw, ttl, issue, ml) ==
    create_header(cw, ttl, ParticipantCount(cs))
    \o (IF cs = <<>>
        THEN FixedBlock(EmptyStateLengths, cw)
        ELSE AllMessagePieces(cs, 1, cw, ml, issue)
             \o (IF Len(cs) <= 2 THEN FixedBlock(EngagementLengths, cw) ELSE <<>>))
    \o create_footer(cw, issue)

create_chat_interface(cs, cw, ttl, issue, ml) ==
    Join(ChatPieces(cs, cw, ttl, issue, ml), NL)

----------------------------------------------------------------------------
(* Specification SpecAscii: one call of ascii_engine.create_chat_interface *)

MaxComments == 3

\* comments with narrow, wide, zero-width and unmeasurable code points, and
\* with the line separator, in the author and in the body
CommentPool ==
    { [login |-> <<NARROW>>, body |-> <<NARROW, SPACE, WIDE>>, is_owner |-> FALSE],
      [login |-> <<WIDE>>, body |-> <<ZERO, NL, UNMEAS>>, is_owner |-> TRUE],
      [login |-> <<NARROW, NL>>, body |-> <<NARROW>>, is_owner |-> FALSE],
      [login |-> <<ZERO>>, body |-> <<>>, is_owner |-> TRUE] }

RECURSIVE ListsUpTo(_, _)
ListsUpTo(pool, n) ==
    IF n = 0 THEN {<<>>}
    ELSE LET shorter == ListsUpTo(pool, n - 1)
         IN  shorter \cup {Append(l, c) : l \in {t \in shorter : Len(t) = n - 1}, c \in pool}

Titles == {<<NARROW>>, <<WIDE, NL>>}

\* the supported minimum, and two widths that show the title and the body
AsciiWidths == {20, 22 + MaxWidth, 26 + MaxWidth}

InitAscii ==
    /\ pc = "start"
    /\ AuxIdle /\ RunIdle
    /\ comments \in ListsUpTo(CommentPool, MaxComments)
    /\ chat_width \in AsciiWidths
    /\ title \in Titles
    /\ issue_number = <<NARROW>>
    /\ max_lines \in {1, MaxLines}
    /\ out = NoOut
    /\ max_messages = 0 /\ bubble_width = 0
    /\ ClipIdle /\ BubbleIdle /\ HtmlIdle

CreateChatInterface ==
    /\ pc = "start"
    /\ out' = [raised |-> "none",
               text |-> create_chat_interface(comments, chat_width, title,
                                              issue_number, max_lines),
               frame |-> {},
               shown |-> [i \in 1..Len(comments) |-> i]]
    /\ pc' = "done"
    /\ UNCHANGED <<auxVars, runVars>>
    /\ UNCHANGED <<comments, title, max_messages, bubble_width>>
    /\ UNCHANGED <<cfgVars, clipVars, bubbleVars, htmlVars>>

NextAscii == CreateChatInterface

SpecAscii == InitAscii /\ [][NextAscii]_vars

----------------------------------------------------------------------------
(* C1: for every chat_width W >= 20, every title, issue number and list of  *)
(* comments, each line of the string create_chat_interface returns (split   *)
(* on the line separator) has visual_width exactly W.                       *)
C1_EveryLineHasCanvasWidth ==
    (pc = "done" /\ chat_width >= 20) =>
        LET ls == Split(out.text, NL)
        IN  \A i \in 1..Len(ls) : visual_width(ls[i]) = chat_width

----------------------------------------------------------------------------
(* scripts/render_chat.py: GroupChatRenderer.wrap_message *)

BACKTICK == "k"   \* U+0060, the code mark
LETTER_W == "w"
DOT == "."

\* "pat in s"
Contains(s, pat) ==
    \E i \in 0..(Len(s) - Len(pat)) : SubSeq(s, i + 1, i + Len(pat)) = pat

\* s.count(c) for one code point
Count(s, c) == Cardinality({i \in 1..Len(s) : s[i] = c})

Fence == <<BACKTICK, BACKTICK, BACKTICK>>

_contains_code_block(text) == Contains(text, Fence) \/ Count(text, BACKTICK) >= 2

_contains_urls(text) ==
    \/ Contains(text, <<"h", "t", "t", "p", ":", "/", "/">>)
    \/ Contains(text, <<"h", "t", "t", "p", "s", ":", "/", "/">>)
    \/ Contains(text, <<LETTER_W, LETTER_W, LETTER_W, DOT>>)

\* text.split(): the maximal runs of non-whitespace
Words(text) == SelectSeq(Chunks(text), LAMBDA c : ~IsWs(c[1]))

\* the for loop of _wrap_with_special_content and the flush after it
RECURSIVE SpecialLoop(_, _, _, _, _, _)
SpecialLoop(words, i, acc, current_line, current_length, w) ==
    LET flushed == IF current_line # <<>>
                   THEN Append(acc, Join(current_line, SPACE)) ELSE acc
    IN  IF i > Len(words) THEN flushed
        ELSE IF current_length + Len(words[i]) + 1 <= w
             THEN SpecialLoop(words, i + 1, acc, Append(current_line, words[i]),
                              current_length + Len(words[i]) + 1, w)
             ELSE SpecialLoop(words, i + 1, flushed, <<words[i]>>, Len(words[i]), w)

_wrap_with_special_content(text, w) ==
    LET ls == SpecialLoop(Words(text), 1, <<>>, <<>>, 0, w)
    IN  IF ls # <<>> THEN ls ELSE << SliceTo(text, w) >>

\* [line[:width] for line in text.split('\n')]
TruncateEachLine(text, w) ==
    LET ls == Split(text, NL) IN [i \in 1..Len(ls) |-> SliceTo(ls[i], w)]

_wrap_code_block(text, w) ==
    IF Contains(text, Fence) THEN TruncateEachLine(text, w)
    ELSE _wrap_with_special_content(text, w)

\* "(empty message)"
EmptyMessage == Text(15)

\* textwrap.wrap(text, width=width, break_long_words=False, ...), which raises
\* ValueError for width <= 0: the except clause then returns [text[:width]]
WrapPlain(text, w) ==
    IF w <= 0 THEN << SliceTo(text, w) >>
    ELSE LET ls == TextWrap(text, w, FALSE, TRUE)
         IN  IF ls # <<>> THEN ls ELSE << SliceTo(text, w) >>

wrap_message(text, w) ==
    IF IsBlank(text) THEN << EmptyMessage >>
    ELSE LET t == Strip(text)
         IN  IF _contains_code_block(t) THEN _wrap_code_block(t, w)
             ELSE IF _contains_urls(t) THEN _wrap_with_special_content(t, w)
             ELSE WrapPlain(t, w)

----------------------------------------------------------------------------
(* Specification SpecWrap: one call of wrap_message on a drawn message *)

MaxWords == 3

\* a short word, a word longer than the widths drawn, a URL, inline code and
\* a fenced block
WordPool ==
    { <<NARROW>>,
      Text(MaxWidth + 3),
      <<LETTER_W, LETTER_W, LETTER_W, DOT, NARROW>>,
      <<BACKTICK, NARROW, BACKTICK>>,
      Fence \o Text(MaxWidth) }

\* up to n words of the pool, each two separated by a space or a line separator
RECURSIVE Messages(_)
Messages(n) ==
    IF n = 0 THEN {<<>>}
    ELSE LET shorter == Messages(n - 1)
         IN  shorter \cup WordPool
             \cup {m \o <<sep>> \o wd :
                      m \in shorter \ {<<>>}, sep \in {SPACE, NL}, wd \in WordPool}

WrapWidths == 1..(MaxWidth + 2)

InitWrap ==
    /\ pc = "start"
    /\ AuxIdle /\ RunIdle
    /\ txt \in Messages(MaxWords)
    /\ width \in WrapWidths
    /\ clipped = <<>>
    /\ BubbleIdle /\ CfgIdle /\ HtmlIdle /\ ChatIdle

WrapMessage ==
    /\ pc = "start"
    /\ wrapped' = wrap_message(txt, width)
    /\ pc' = "done"
    /\ UNCHANGED <<auxVars, runVars>>
    /\ UNCHANGED <<clipVars, content, username, is_owner, lines>>
    /\ UNCHANGED <<cfgVars, htmlVars, chatVars>>

NextWrap == WrapMessage

SpecWrap == InitWrap /\ [][NextWrap]_vars

----------------------------------------------------------------------------
(* C5: wrap_message(text, width) never returns a line longer than width: a *)
(* token longer than width is broken, never left overflowing, in every     *)
(* branch (plain text, URL text, inline code, code block).  The placeholder *)
(* returned for a blank text is left out.                                  *)
C5_NoLineLongerThanWidth ==
    (pc = "done" /\ ~IsBlank(txt)) => \A i \in 1..Len(wrapped) : Len(wrapped[i]) <= width

(* C6: wrapping loses nothing: for every non-empty body the non-whitespace *)
(* code points of the wrapped lines, concatenated in order, are those of   *)
(* the body, in every branch of wrap_message (and in the paragraph         *)
(* wrapping of ascii_engine).                                              *)
C6_WrapKeepsNonWhitespace ==
    (pc = "done" /\ ~IsBlank(txt)) => NonWs(Concat(wrapped)) = NonWs(txt)

----------------------------------------------------------------------------
(* scripts/render_chat.py: create_message_bubble and render_chat_interface. *)
(* An emoji is a WIDE code point, a box-drawing character is BAR.  A format *)
(* specification with a negative width raises ValueError.                   *)

\* f"{s:<{n}}" and f"{s:>{n}}" for n >= 0
LJust(s, n) == s \o Spaces(n - Len(s))
RJust(s, n) == Spaces(n - Len(s)) \o s

\* REPO_OWNER
repo_owner == <<NARROW, NARROW>>

max_length == 500

_sanitize_message(message) ==
    IF message = <<>> THEN EmptyMessage
    ELSE LET sanitized == Strip(message)
         IN  IF Len(sanitized) > max_length
             THEN SliceTo(sanitized, max_length - 3) \o <<DOT, DOT, DOT>>
             ELSE sanitized

_is_owner_comment(c) == c.author_association = "OWNER" \/ c.login = repo_owner

QMARK == "?"
COLON == ":"

\* "HH:MM", or "??:??" for a timestamp that does not parse (ValueError) or
\* that is None (TypeError)
format_timestamp(c) ==
    IF c.created_at = "parsable" THEN Text(5)
    ELSE <<QMARK, QMARK, COLON, QMARK, QMARK>>

_get_recent_comments(cs, mm) ==
    IF Len(cs) <= mm THEN cs
    ELSE IF mm > 0 THEN SubSeq(cs, Len(cs) - mm + 1, Len(cs))
    ELSE SubSeq(cs, 1 - mm, Len(cs))

\* bubble_width = max(min(len(message), config.bubble_width - 4) + 4, 20)
BubbleWidth(message, bw) ==
    LET content_width == IF Len(message) < bw - 4 THEN Len(message) ELSE bw - 4
    IN  IF content_width + 4 > 20 THEN content_width + 4 ELSE 20

\* the format widths create_message_bubble computes
BubblePads(message, owner, cw, bw) ==
    IF owner THEN {cw - 2, cw - BubbleWidth(message, bw) - 2}
    ELSE {cw - 3, cw - BubbleWidth(message, bw) - 3}

ContentLine(line, b) == <<BAR, SPACE>> \o LJust(line, b - 4) \o <<SPACE, BAR>>

\* the lines returned when no format width is negative
create_message_bubble(user, message, timestamp, owner, cw, bw) ==
    LET b == BubbleWidth(message, bw)
        wrapped_text == wrap_message(message, b - 4)
        top == <<BAR>> \o Repeat(BAR, b - 2) \o <<BAR>>
        body == [i \in 1..Len(wrapped_text) |-> ContentLine(wrapped_text[i], b)]
        boxed == <<top>> \o body \o <<top>>
    IN  IF owner
        THEN << <<BAR>> \o RJust(timestamp \o <<SPACE>> \o user \o <<SPACE, WIDE>>, cw - 2)
                  \o <<BAR>> >>
             \o [i \in 1..Len(boxed) |->
                    <<BAR>> \o Spaces(cw - b - 2) \o boxed[i] \o <<BAR>>]
        ELSE << <<BAR, SPACE>>
                  \o LJust(<<WIDE, SPACE>> \o user \o <<SPACE>> \o timestamp, cw - 3)
                  \o <<BAR>> >>
             \o [i \in 1..Len(boxed) |->
                    <<BAR, SPACE>> \o boxed[i] \o Spaces(cw - b - 3) \o <<BAR>>]

\* f"|{'':<{chat_width-2}}|"
BlankLine(cw) == <<BAR>> \o Spaces(cw - 2) \o <<BAR>>

\* "Issue #<n>" and the join prompt of the footer
IssueLink(issue) == Text(7) \o issue
join_msg == <<WIDE>> \o Text(25)

\* "No messages yet... be the first to say hi! " and the waving hand
empty_msg == Text(43) \o <<WIDE>>

ScriptsHeader(cw, ttl, n) ==
    << <<BAR>> \o Repeat(BAR, cw - 2) \o <<BAR>>,
       <<BAR, SPACE>> \o LJust(<<WIDE, SPACE>> \o ttl, cw - 4) \o <<SPACE, BAR>>,
       <<BAR, SPACE>> \o LJust(<<WIDE, SPACE>> \o Digits(n) \o Text(20), cw - 4)
          \o <<SPACE, BAR>>,
       <<BAR>> \o Repeat(BAR, cw - 2) \o <<BAR>> >>

EmptyState(cw) ==
    LET padding == (cw - Len(empty_msg) - 4) \div 2
    IN  << BlankLine(cw),
           <<BAR>> \o Spaces(padding) \o empty_msg
              \o Spaces(cw - Len(empty_msg) - padding - 2) \o <<BAR>>,
           BlankLine(cw) >>

ScriptsFooter(cw, issue) ==
    << BlankLine(cw),
       <<BAR>> \o Repeat(BAR, cw - 2) \o <<BAR>>,
       <<BAR, SPACE>> \o join_msg \o <<SPACE>>
          \o LJust(IssueLink(issue), cw - Len(join_msg) - 4) \o <<SPACE, BAR>>,
       <<BAR>> \o Repeat(BAR, cw - 2) \o <<BAR>> >>

\* a comment whose lookups raise KeyError inside the try block
MissingKey(c) == ~c.has_user \/ ~c.has_body \/ ~c.has_created_at

\* the for loop of render_chat_interface over recent_comments: chat_lines,
\* the indices of the spacer lines, and the comments whose bubble was added
RECURSIVE MessageLoop(_, _, _, _, _)
MessageLoop(recent, i, acc, cw, bw) ==
    IF i > Len(recent) THEN acc
    ELSE LET c == recent[i]
             message == _sanitize_message(c.body)
             spaced == IF i > 1
                       THEN [acc EXCEPT !.lines = Append(@, BlankLine(cw)),
                                        !.frame = @ \cup {Len(acc.lines) + 1}]
                       ELSE acc
         IN  IF MissingKey(c) THEN MessageLoop(recent, i + 1, acc, cw, bw)
             ELSE IF \E p \in BubblePads(message, _is_owner_comment(c), cw, bw) : p < 0
             THEN MessageLoop(recent, i + 1, spaced, cw, bw)
             ELSE MessageLoop(recent, i + 1,
                      [spaced EXCEPT
                          !.lines = @ \o create_message_bubble(c.login, message,
                                        format_timestamp(c), _is_owner_comment(c), cw, bw),
                          !.shown = Append(@, i)],
                      cw, bw)

Raised(exception) == [NoOut EXCEPT !.raised = exception]

render_chat_interface(cs, cw, bw, mm, ttl, issue) ==
    IF \E i \in 1..Len(cs) : ~cs[i].has_user THEN Raised("KeyError")
    ELSE IF cw - 4 < 0 THEN Raised("ValueError")
    ELSE LET header == ScriptsHeader(cw, ttl, Cardinality({cs[i].login : i \in 1..Len(cs)}))
             start == [lines |-> header, frame |-> 1..Len(header), shown |-> <<>>]
             body == IF cs = <<>>
                     THEN [start EXCEPT !.lines = @ \o EmptyState(cw),
                                        !.frame = @ \cup (Len(header) + 1)..(Len(header) + 3)]
                     ELSE MessageLoop(_get_recent_comments(cs, mm), 1, start, cw, bw)
             footer == ScriptsFooter(cw, issue)
         IN  IF cw - Len(join_msg) - 4 < 0 THEN Raised("ValueError")
             ELSE [raised |-> "none",
                   text |-> Join(body.lines \o footer, NL),
                   frame |-> body.frame
                             \cup (Len(body.lines) + 1)..(Len(body.lines) + Len(footer)),
                   shown |-> body.shown]

----------------------------------------------------------------------------
(* Specification SpecScripts: one call of render_chat_interface of         *)
(* scripts/render_chat.py                                                  *)

Comment(login, body, association) ==
    [has_user |-> TRUE, has_body |-> TRUE, has_created_at |-> TRUE,
     login |-> login, body |-> body, author_association |-> association,
     created_at |-> "parsable"]

\* three well-formed comments (a visitor, the owner with a long word, an empty
\* body), one with a timestamp that does not parse and one for each missing key
ScriptsPool ==
    { Comment(<<NARROW>>, <<NARROW, SPACE, WIDE>>, "NONE"),
      Comment(repo_owner, Text(40), "OWNER"),
      Comment(<<WIDE>>, <<>>, "NONE"),
      [Comment(<<NARROW>>, <<NARROW>>, "NONE") EXCEPT !.created_at = "unparsable"],
      [Comment(<<>>, <<NARROW>>, "NONE") EXCEPT !.has_user = FALSE],
      [Comment(<<NARROW>>, <<>>, "NONE") EXCEPT !.has_body = FALSE],
      [Comment(<<NARROW>>, <<NARROW>>, "NONE") EXCEPT !.has_created_at = FALSE] }

\* widths below the frame decoration, below the footer prompt, below the
\* bubble, and the default 50
ScriptsWidths == {0, 3, 4, 29, 30, 50}

\* a narrow bubble and the default 38
BubbleWidthsCfg == {24, 38}

\* a limit that cuts the list and the default 10
MessageLimits == {MaxComments - 1, 10}

InitScripts ==
    /\ pc = "start"
    /\ AuxIdle /\ RunIdle
    /\ comments \in ListsUpTo(ScriptsPool, MaxComments)
    /\ chat_width \in ScriptsWidths
    /\ bubble_width \in BubbleWidthsCfg
    /\ max_messages \in MessageLimits
    /\ title = <<NARROW>>
    /\ issue_number = <<NARROW>>
    /\ max_lines = 0
    /\ out = NoOut
    /\ ClipIdle /\ BubbleIdle /\ HtmlIdle

RenderChatInterface ==
    /\ pc = "start"
    /\ out' = render_chat_interface(comments, chat_width, bubble_width, max_messages,
                                    title, issue_number)
    /\ pc' = "done"
    /\ UNCHANGED <<auxVars, runVars>>
    /\ UNCHANGED <<comments, title, max_messages, bubble_width>>
    /\ UNCHANGED <<cfgVars, clipVars, bubbleVars, htmlVars>>

NextScripts == RenderChatInterface

SpecScripts == InitScripts /\ [][NextScripts]_vars

----------------------------------------------------------------------------
\* the number of columns of a line of measurable code points
Columns(s) == SumWidth(s, Len(s))

\* the variable text of every frame line fits inside the line
FrameTextFits ==
    /\ Len(title) + 2 <= chat_width - 4
    /\ Len(Digits(Len(comments))) + 22 <= chat_width - 4
    /\ Len(empty_msg) <= chat_width - 4
    /\ Len(IssueLink(issue_number)) <= chat_width - Len(join_msg) - 4

(* C3: in render_chat_interface of scripts/render_chat.py every frame line *)
(* (the 4 header lines, the empty-state lines, the spacer between messages *)
(* and the 4 footer lines) occupies exactly chat_width columns, whenever   *)
(* the title, the participant count and the issue number fit in the line.  *)
C3_FrameLinesHaveCanvasWidth ==
    (pc = "done" /\ out.raised = "none" /\ FrameTextFits) =>
        LET ls == Split(out.text, NL)
        IN  \A i \in out.frame : Columns(ls[i]) = chat_width

\* the indices, in recent_comments, of the comments that miss no key
WellFormed(recent) ==
    LET RECURSIVE Pick(_)
        Pick(i) == IF i > Len(recent) THEN <<>>
                   ELSE (IF MissingKey(recent[i]) THEN <<>> ELSE <<i>>) \o Pick(i + 1)
    IN  Pick(1)

\* the canvas leaves room for the footer prompt and for every bubble
Roomy ==
    /\ chat_width >= Len(join_msg) + 4
    /\ chat_width >= bubble_width + 3

(* C9: a single malformed comment (one that misses 'user', 'body' or       *)
(* 'created_at') never aborts the render: render_chat_interface still      *)
(* returns the framed interface, with every well-formed comment rendered.  *)
C9_MalformedCommentIsIsolated ==
    (/\ pc = "done"
     /\ Roomy
     /\ Cardinality({i \in 1..Len(comments) : MissingKey(comments[i])}) = 1) =>
        /\ out.raised = "none"
        /\ out.shown = WellFormed(_get_recent_comments(comments, max_messages))

(* C10: for every chat_width >= 0, also one smaller than the frame         *)
(* decoration, the prompt or the bubble, the renderer returns an output    *)
(* without raising (negative pad counts would be clamped to 0).            *)
C10_NoWidthRaises ==
    (pc = "done" /\ \A i \in 1..Len(comments) : ~MissingKey(comments[i])) =>
        out.raised = "none"

(* C11: rendering an empty comment list gives the header lines, the fixed  *)
(* empty-state block and the footer lines, and the number of output lines   *)
(* is a constant that depends on no width, title or issue number: 11 lines  *)
(* (4 + 3 + 4) for render_chat_interface of scripts/render_chat.py.         *)
C11_EmptyListLineCount ==
    (pc = "done" /\ comments = <<>>) =>
        /\ out.raised = "none"
        /\ Len(Split(out.text, NL)) = 11

----------------------------------------------------------------------------
(* Specification SpecAlign: one message rendered twice by the same text    *)
(* renderer at the width 50, once as the owner's and once as a visitor's   *)

AlignWidth == 50
DefaultBubbleWidth == 38

\* the body "hi" and a body of one wide code point
AlignBodies == {<<NARROW, NARROW>>, <<WIDE>>}

InitAlign ==
    /\ pc = "start"
    /\ username \in StringsUpTo({NARROW, WIDE}, MaxLen) \ {<<>>}
    /\ content \in AlignBodies
    /\ chat_width = AlignWidth
    /\ bubble_width = DefaultBubbleWidth
    /\ max_lines = MaxLines
    /\ issue_number = <<NARROW>>
    /\ is_owner = FALSE /\ wrapped = <<>> /\ lines = <<>>
    /\ comments = <<>> /\ title = <<>> /\ out = NoOut /\ max_messages = 0
    /\ AuxIdle /\ RunIdle /\ ClipIdle /\ HtmlIdle

AlignFrame ==
    UNCHANGED <<runVars, clipVars, bubbleVars, cfgVars, htmlVars, chatVars, phrase, recent_comments>>

AsciiAsOwner ==
    /\ pc = "start"
    /\ owner_lines' = _create_message_bubble(content, username, TRUE, chat_width,
                                              max_lines, issue_number)
    /\ pc' = "ascii_owner"
    /\ UNCHANGED visitor_lines
    /\ AlignFrame

AsciiAsVisitor ==
    /\ pc = "ascii_owner"
    /\ visitor_lines' = _create_message_bubble(content, username, FALSE, chat_width,
                                                max_lines, issue_number)
    /\ pc' = "ascii_done"
    /\ UNCHANGED owner_lines
    /\ AlignFrame

ScriptsAsOwner ==
    /\ pc = "start"
    /\ owner_lines' = create_message_bubble(username, content, Text(5), TRUE,
                                             chat_width, bubble_width)
    /\ pc' = "scripts_owner"
    /\ UNCHANGED visitor_lines
    /\ AlignFrame

ScriptsAsVisitor ==
    /\ pc = "scripts_owner"
    /\ visitor_lines' = create_message_bubble(username, content, Text(5), FALSE,
                                               chat_width, bubble_width)
    /\ pc' = "scripts_done"
    /\ UNCHANGED owner_lines
    /\ AlignFrame

NextAlign ==
    \/ AsciiAsOwner
    \/ AsciiAsVisitor
    \/ ScriptsAsOwner
    \/ ScriptsAsVisitor

SpecAlign == InitAlign /\ [][NextAlign]_vars

\* the column offset of the first code point of a line that is neither a
\* space nor a frame character (the length of the line if there is none)
ContentOffset(line) ==
    LET content_at == {i \in 1..Len(line) : line[i] \notin {SPACE, BAR}}
    IN  IF content_at = {} THEN Len(line)
        ELSE (CHOOSE i \in content_at : \A j \in content_at : i <= j) - 1

(* C12: at width 50, for the same author and body, the body lines of the   *)
(* owner rendering and of the visitor rendering start their content at     *)
(* different column offsets (opposite sides of the canvas), in each text   *)
(* renderer: the first body line is line 1 of the ascii bubble and line 3  *)
(* (after the time header and the top border) of the scripts bubble.       *)
C12_OwnerOnOtherSide ==
    /\ pc = "ascii_done" =>
           ContentOffset(owner_lines[1]) # ContentOffset(visitor_lines[1])
    /\ pc = "scripts_done" =>
           ContentOffset(owner_lines[3]) # ContentOffset(visitor_lines[3])

----------------------------------------------------------------------------
(* The participant text of the three headers.  A text is described by      *)
(* whether it prints the count and by the grammatical number of its noun.  *)

\* ascii_engine create_header: "Ready for connections", "1 contributor
\* online", "<n> users"
AsciiParticipantText(n) ==
    IF n = 0 THEN [count_shown |-> FALSE, noun |-> "none"]
    ELSE IF n = 1 THEN [count_shown |-> TRUE, noun |-> "singular"]
    ELSE [count_shown |-> TRUE, noun |-> "plural"]

\* html_engine create_html_chat_interface: "Ready for connections",
\* "1 contributor online", "<n> users active"
HtmlParticipantText(n) ==
    IF n = 0 THEN [count_shown |-> FALSE, noun |-> "none"]
    ELSE IF n = 1 THEN [count_shown |-> TRUE, noun |-> "singular"]
    ELSE [count_shown |-> TRUE, noun |-> "plural"]

\* scripts/render_chat.py: f"<n> participants online" for every n
ScriptsParticipantText(n) == [count_shown |-> TRUE, noun |-> "plural"]

----------------------------------------------------------------------------
(* Specification SpecHeader: the header of one renderer built for a list   *)
(* of comments                                                             *)

InitHeader ==
    /\ pc = "start"
    /\ comments \in ListsUpTo(CommentPool, MaxComments)
    /\ title = <<>> /\ out = NoOut /\ max_messages = 0 /\ bubble_width = 0
    /\ AuxIdle /\ RunIdle /\ ClipIdle /\ BubbleIdle /\ CfgIdle /\ HtmlIdle

HeaderFrame ==
    UNCHANGED <<runVars, clipVars, bubbleVars, cfgVars, htmlVars, chatVars,
                owner_lines, visitor_lines, recent_comments>>

AsciiHeader ==
    /\ pc = "start"
    /\ phrase' = AsciiParticipantText(ParticipantCount(comments))
    /\ pc' = "ascii"
    /\ HeaderFrame

HtmlHeader ==
    /\ pc = "start"
    /\ phrase' = HtmlParticipantText(ParticipantCount(comments))
    /\ pc' = "html"
    /\ HeaderFrame

ScriptsHeaderStatus ==
    /\ pc = "start"
    /\ phrase' = ScriptsParticipantText(ParticipantCount(comments))
    /\ pc' = "scripts"
    /\ HeaderFrame

NextHeader ==
    \/ AsciiHeader
    \/ HtmlHeader
    \/ ScriptsHeaderStatus

SpecHeader == InitHeader /\ [][NextHeader]_vars

(* C13: in every renderer the participant text of the header follows the   *)
(* number n of distinct authors: for n = 0 it does not print the count     *)
(* ("0 participants"), for n = 1 it is singular, for n >= 2 it is plural   *)
(* and prints n.                                                           *)
C13_ParticipantPhrasing ==
    pc # "start" =>
        LET n == ParticipantCount(comments)
        IN  /\ n = 0 => ~phrase.count_shown
            /\ n = 1 => phrase.noun = "singular"
            /\ n >= 2 => (phrase.noun = "plural" /\ phrase.count_shown)

(* C14: a comment whose timestamp is absent or does not parse is still    *)
(* rendered as a message (with a placeholder for its time) and no exception *)
(* leaves render_chat_interface: every comment that has its author and its  *)
(* body is shown, whatever its timestamp.                                   *)
C14_BadTimestampStillRendered ==
    (/\ pc = "done"
     /\ Roomy
     /\ \A i \in 1..Len(comments) : comments[i].has_user /\ comments[i].has_body) =>
        /\ out.raised = "none"
        /\ out.shown = [i \in 1..Len(_get_recent_comments(comments, max_messages)) |-> i]

(* C15: an empty or whitespace-only body is rendered as the fixed          *)
(* "(empty message)" placeholder: _create_message_bubble of ascii_engine    *)
(* returns one line, the prompt followed by the placeholder.                *)
C15_EmptyBodyPlaceholder ==
    (pc = "done" /\ IsBlank(content) /\ chat_width >= 20 /\ max_lines >= 1) =>
        lines = << ShownAs(1, EmptyMessage) >>

\* the number of fields of s written from the wall clock: the maximal runs
\* of clock code points
ClockFields(s) ==
    Cardinality({i \in 1..Len(s) : s[i] = CLOCK /\ (i = 1 \/ s[i - 1] # CLOCK)})

(* C16: determinism.  Two calls of create_chat_interface with the same     *)
(* arguments give the same output except for one embedded current-time     *)
(* field: the wall clock is written into exactly one field of the output.  *)
C16_OneClockField ==
    pc = "done" => ClockFields(out.text) = 1

----------------------------------------------------------------------------
(* Specification SpecRecent: one call of _get_recent_comments in each       *)
(* render_chat.py.  max_messages holds the integer MAX_MESSAGES parses to:  *)
(* scripts/render_chat.py keeps it as it is, .github/scripts/render_chat.py *)
(* passes it through _get_positive_int.                                     *)

\* comments told apart by their author
RecentPool ==
    { Comment(<<NARROW>>, <<NARROW>>, "NONE"),
      Comment(<<WIDE>>, <<NARROW>>, "NONE"),
      Comment(repo_owner, <<NARROW>>, "OWNER") }

InitRecent ==
    /\ pc = "start"
    /\ comments \in ListsUpTo(RecentPool, MaxComments)
    /\ max_messages \in 0..(MaxComments + 1)
    /\ title = <<>> /\ out = NoOut /\ bubble_width = 0
    /\ AuxIdle /\ RunIdle /\ ClipIdle /\ BubbleIdle /\ CfgIdle /\ HtmlIdle

RecentFrame ==
    UNCHANGED <<runVars, clipVars, bubbleVars, cfgVars, htmlVars, chatVars,
                owner_lines, visitor_lines, phrase>>

ScriptsGetRecentComments ==
    /\ pc = "start"
    /\ recent_comments' = _get_recent_comments(comments, max_messages)
    /\ pc' = "scripts"
    /\ RecentFrame

GithubGetRecentComments ==
    /\ pc = "start"
    /\ recent_comments' = _get_recent_comments(comments, _get_positive_int(max_messages))
    /\ pc' = "github"
    /\ RecentFrame

NextRecent ==
    \/ ScriptsGetRecentComments
    \/ GithubGetRecentComments

SpecRecent == InitRecent /\ [][NextRecent]_vars

\* t is the last Len(t) elements of s, in the same order
IsSuffix(t, s) ==
    /\ Len(t) <= Len(s)
    /\ t = SubSeq(s, Len(s) - Len(t) + 1, Len(s))

(* C17: _get_recent_comments returns the most recent max_messages comments: *)
(* for every list and every configured max_messages the result has at most  *)
(* max_messages elements and is a suffix of the input, in the input order,  *)
(* in both render_chat.py variants.                                         *)
C17_RecentIsBoundedSuffix ==
    /\ pc = "scripts" =>
           (Len(recent_comments) <= max_messages /\ IsSuffix(recent_comments, comments))
    /\ pc = "github" =>
           /\ Len(recent_comments) <= _get_positive_int(max_messages)
           /\ IsSuffix(recent_comments, comments)

\* the indices of the spacer lines of the output of render_chat_interface:
\* its frame lines other than the 4 header lines and the 4 footer lines
SpacerLines ==
    LET n == 1 + Count(out.text, NL)
    IN  out.frame \ ((1..4) \cup ((n - 3)..n))

(* C18: composition order.  The output is the header, the message blocks   *)
(* in input order and the footer; exactly one blank spacer line stands      *)
(* between every two consecutive rendered blocks and none before the first  *)
(* rendered block, also when a comment is skipped because it failed to      *)
(* render.                                                                  *)
C18_OneSpacerBetweenBlocks ==
    (pc = "done" /\ out.raised = "none" /\ comments # <<>>) =>
        /\ 5 \notin SpacerLines
        /\ Cardinality(SpacerLines) =
               (IF out.shown = <<>> THEN 0 ELSE Len(out.shown) - 1)

----------------------------------------------------------------------------
\* the column width the specification gives a code point: 0 for a zero-width
\* mark, 1 for a narrow one, 2 for a wide one, 1 for an unmeasurable one
ColumnsOf(c) == IF Wcwidth(c) < 0 THEN 1 ELSE Wcwidth(c)

RECURSIVE SumColumns(_, _)
SumColumns(s, n) == IF n = 0 THEN 0 ELSE ColumnsOf(s[n]) + SumColumns(s, n - 1)

(* C19: visual_width(s) is, for every string s, the sum over its code      *)
(* points of the per-code-point column width (0 zero-width, 1 narrow,      *)
(* 2 wide, 1 unmeasurable), and is never negative.                         *)
C19_WidthIsPerCodePointSum ==
    pc = "done" =>
        /\ visual_width(txt) = SumColumns(txt, Len(txt))
        /\ visual_width(txt) >= 0

\* the length of the longest prefix p of s with visual_width(p) + 1 <= w
LongestFittingPrefix(s, w) ==
    LET fits == {n \in 0..Len(s) : visual_width(SubSeq(s, 1, n)) + 1 <= w}
    IN  CHOOSE n \in fits : \A k \in fits : k <= n

(* C20: when visual_width(s) > w and w >= 1, _clip(s, w) is p, the         *)
(* ellipsis and spaces, where p is the longest prefix of s with            *)
(* visual_width(p) + 1 <= w.                                               *)
C20_ClipKeepsLongestPrefix ==
    (pc = "done" /\ visual_width(txt) > width /\ width >= 1) =>
        LET p == SubSeq(txt, 1, LongestFittingPrefix(txt, width))
        IN  \E k \in 0..width : clipped = p \o <<ELLIPSIS>> \o Spaces(k)

----------------------------------------------------------------------------
\* wrap_message hands txt to _wrap_with_special_content: inline code without
\* a fence, or a URL
SpecialBranch ==
    /\ ~IsBlank(txt)
    /\ LET t == Strip(txt)
       IN  IF _contains_code_block(t) THEN ~Contains(t, Fence) ELSE _contains_urls(t)

(* C21: greedy wrapping in _wrap_with_special_content.  A token is moved   *)
(* to a new line only when appending it, with one separating space, would  *)
(* make the current line longer than width: no output line but the last    *)
(* could also hold the first token of the next line.                       *)
C21_GreedyWrap ==
    (pc = "done" /\ SpecialBranch) =>
        \A i \in 1..(Len(wrapped) - 1) :
            Len(wrapped[i]) + 1 + Len(Words(wrapped[i + 1])[1]) > width

----------------------------------------------------------------------------
(* html_engine.create_html_chat_interface: the values it interpolates      *)

\* get_repo_path(): "owner/name", both parts matched against
\* ^[a-zA-Z0-9._-]+$ before they are returned
get_repo_path == Text(1) \o Text(1) \o Text(1)

\* the values format_message_content has put into the markup it returns
ContentSites(c) ==
    CASE c.kind = "truncated" -> <<c.text, escape_html(get_repo_path), c.issue, c.issue>>
      [] c.kind = "full"      -> <<c.text>>
      [] OTHER                -> <<>>

\* one message of the loop: the login in the link target and the link text,
\* then the formatted body
HtmlMessageSites(comment, ml, issue) ==
    <<escape_html(comment.login), escape_html(comment.login)>>
        \o ContentSites(format_message_content(comment.body, ml, issue, TRUE))

\* the footer: repo_path and issue_number as the f-strings take them
HtmlFooterSites(issue) == <<get_repo_path, issue, issue>>

\* The interpolated values of the page in the order of the markup: the title
\* of the header, the messages, the footer.  get_repo_path() of the footer
\* raises ValueError for an invalid REPO_OWNER or REPO_NAME.
create_html_chat_interface(cs, ml, ttl, issue, repo_ok) ==
    IF ~repo_ok
    THEN [kind |-> "raised", sites |-> <<>>]
    ELSE [kind |-> "page",
          sites |-> <<escape_html(ttl)>>
                    \o Concat([i \in 1..Len(cs) |-> HtmlMessageSites(cs[i], ml, issue)])
                    \o HtmlFooterSites(issue)]

\* markup characters next to plain ones
MarkupChars == {NARROW, LT, AMP}
HtmlBodies == StringsUpTo({NARROW, LT, NL}, MaxLen)
HtmlPool ==
    {[login |-> <<l>>, body |-> b] : l \in {NARROW, LT}, b \in HtmlBodies}

----------------------------------------------------------------------------
(* Specification SpecHtml: one call of create_html_chat_interface           *)

InitHtml ==
    /\ pc = "start"
    /\ AuxIdle /\ RunIdle /\ ClipIdle /\ BubbleIdle
    /\ comments \in ListsUpTo(HtmlPool, 1)
    /\ title \in StringsUpTo(MarkupChars, 1)
    /\ issue_number \in {<<c>> : c \in MarkupChars}
    /\ max_lines \in 1..2
    /\ repo_path_valid \in BOOLEAN
    /\ chat_width = 0
    /\ html = NoHtml
    /\ config = NoConfig
    /\ out = NoOut /\ max_messages = 0 /\ bubble_width = 0

CreateHtmlChatInterface ==
    /\ pc = "start"
    /\ html' = create_html_chat_interface(comments, max_lines, title,
                                          issue_number, repo_path_valid)
    /\ pc' = "done"
    /\ UNCHANGED <<clipVars, bubbleVars, cfgVars, repo_path_valid, config,
                   chatVars, auxVars, runVars>>

NextHtml == CreateHtmlChatInterface

SpecHtml == InitHtml /\ [][NextHtml]_vars

(* C22: in the page create_html_chat_interface returns, every value taken  *)
(* from outside (login, body, title, issue number, repository path) stands *)
(* in escaped form at each place it is interpolated: no interpolated value *)
(* holds a raw '<' or '&'.                                                  *)
C22_EveryValueEscaped ==
    (pc = "done" /\ html.kind = "page") =>
        \A i \in 1..Len(html.sites) :
            \A j \in 1..Len(html.sites[i]) : html.sites[i][j] \notin {LT, AMP}

----------------------------------------------------------------------------
(* render_chat.py (both variants): main, the construction of the renderer  *)
(* and fetch_issue_comments                                                 *)

MaxRetries == 3          \* the largest MAX_RETRIES in the environment
MaxDelay == 2            \* the largest RETRY_DELAY, in seconds
DefaultMaxRetries == 3   \* MAX_RETRIES when the variable is unset or unusable

Variants == {"scripts", "github"}

\* GITHUB_TOKEN in the environment: unset, empty, white space, a token
TokenEnv ==
    {[set |-> FALSE, value |-> <<>>]}
        \cup {[set |-> TRUE, value |-> v] : v \in {<<>>, <<SPACE>>, <<NARROW>>}}

\* REPO_OWNER and REPO_NAME in the environment: "malformed" is a non-empty
\* value that does not match ^[a-zA-Z0-9._-]+$
RepoEnv == {"valid", "missing", "malformed"}

\* MAX_RETRIES in the environment: an integer literal or some other text.
\* A negative literal gives range() no more iterations than 0 does.
RetriesEnv ==
    {[numeric |-> TRUE, value |-> n] : n \in 0..MaxRetries}
        \cup {[numeric |-> FALSE, value |-> 0]}

\* _get_required_env('GITHUB_TOKEN'): '' when there is no usable token.
\* scripts tests the raw value, github the stripped one.
_get_required_env(v, e) ==
    IF ~e.set THEN <<>>
    ELSE IF v = "github" THEN Strip(e.value)
    ELSE e.value

\* _get_required_env('REPO_OWNER' / 'REPO_NAME') returns: scripts wants a
\* non-empty value, github one that _is_valid_github_identifier accepts
RepoAccepted(v, r) == r = "valid" \/ (v = "scripts" /\ r = "malformed")

\* ChatConfig() returns: int() of scripts raises ValueError for text that is
\* no integer, _get_positive_int of github falls back to the default
ConfigAccepted(v, mr) == v = "github" \/ mr.numeric

\* ChatConfig.max_retries
ParseMaxRetries(v, mr) ==
    IF v = "scripts" THEN mr.value
    ELSE IF mr.numeric THEN _get_positive_int(mr.value)
    ELSE DefaultMaxRetries

\* the argument of time.sleep after failed attempt k
BackoffConstant(delay, k) == delay
Backoff(delay, k) == delay * (2 ^ k)

\* main's finally clause: the session of a constructed renderer is closed
FinallyLeavesOpen(s) == s
Finally(s) == IF s = "open" THEN "closed" ELSE s

\* main leaves through exit(status) or falls off its end; the finally
\* clause runs on the way out
MainExit(status, cause) ==
    /\ exit_status' = status
    /\ failure' = cause
    /\ session' = Finally(session)
    /\ pc' = "exited"

restVars == <<clipVars, bubbleVars, cfgVars, htmlVars, chatVars, auxVars, readmeVars,
              sanVars>>
envVars == <<variant, env_token>>
configVars == <<github_token, max_retries, retry_delay>>
loopVars == <<attempt, requests, sleeps, outcomes>>

InitRun ==
    /\ pc = "start"
    /\ variant \in Variants
    /\ env_token \in TokenEnv
    /\ github_token = <<>> /\ max_retries = 0 /\ retry_delay = 0
    /\ attempt = 0 /\ requests = 0 /\ sleeps = <<>> /\ outcomes = <<>>
    /\ result = "none"
    /\ MainIdle /\ ReadmeIdle /\ SanIdle
    /\ AuxIdle /\ ClipIdle /\ BubbleIdle /\ CfgIdle /\ HtmlIdle /\ ChatIdle

\* renderer = GroupChatRenderer(): the required variables, the configuration,
\* the session.  A ValueError of __init__ is caught by main, which exits.
MainConstruct ==
    /\ pc = "start"
    /\ \E repo \in RepoEnv, mr \in RetriesEnv, rd \in 1..MaxDelay :
          IF RepoAccepted(variant, repo) /\ ConfigAccepted(variant, mr)
          THEN /\ github_token' = _get_required_env(variant, env_token)
               /\ max_retries' = ParseMaxRetries(variant, mr)
               /\ retry_delay' = rd
               /\ session' = "open"
               /\ pc' = "constructed"
               /\ UNCHANGED <<failure, exit_status>>
          ELSE /\ MainExit(1, "config")
               /\ UNCHANGED configVars
    /\ UNCHANGED <<envVars, loopVars, result, written, restVars>>

\* fetch_issue_comments up to the first iteration of the retry loop.  With
\* range(max_retries) empty the body never runs and the function ends
\* without a return statement.
FetchBeginWithoutTokenTest ==
    /\ pc = "constructed"
    /\ IF max_retries < 1
       THEN result' = "None" /\ pc' = "fetched"
       ELSE result' = result /\ pc' = "loop"
    /\ UNCHANGED <<envVars, configVars, loopVars, mainVars, restVars>>
FetchBegin ==
    /\ pc = "constructed"
    /\ IF github_token = <<>>
       THEN result' = "mock" /\ pc' = "fetched"
       ELSE IF max_retries < 1
            THEN result' = "None" /\ pc' = "fetched"
            ELSE result' = result /\ pc' = "loop"
    /\ UNCHANGED <<envVars, configVars, loopVars, mainVars, restVars>>

\* one session.get call and how it ended
Request(outcome) ==
    /\ requests' = requests + 1
    /\ outcomes' = Append(outcomes, outcome)

\* a return statement of the loop body
Return(value) ==
    /\ result' = value
    /\ pc' = "fetched"
    /\ UNCHANGED <<attempt, sleeps>>

\* status 200: the parsed comments are returned
AttemptSucceeds ==
    /\ pc = "loop"
    /\ Request("ok")
    /\ Return("comments")
    /\ UNCHANGED <<envVars, configVars, mainVars, restVars>>

\* status 403: mock data at once
AttemptForbidden ==
    /\ pc = "loop"
    /\ Request("forbidden")
    /\ Return("mock")
    /\ UNCHANGED <<envVars, configVars, mainVars, restVars>>

\* requests.exceptions.RequestException from session.get, raise_for_status or
\* json(): sleep and go round again, or mock data after the last attempt
AttemptRequestException ==
    /\ pc = "loop"
    /\ Request("request_exception")
    /\ IF attempt < max_retries - 1
       THEN /\ sleeps' = Append(sleeps, Backoff(retry_delay, attempt))
            /\ attempt' = attempt + 1
            /\ pc' = "loop"
            /\ result' = result
       ELSE Return("mock")
    /\ UNCHANGED <<envVars, configVars, mainVars, restVars>>

\* any other exception: mock data at once
AttemptOtherExceptionRetries ==
    /\ pc = "loop"
    /\ Request("other_exception")
    /\ IF attempt < max_retries - 1
       THEN attempt' = attempt + 1 /\ pc' = "loop" /\ UNCHANGED <<result, sleeps>>
       ELSE Return("mock")
    /\ UNCHANGED <<envVars, configVars, mainVars, restVars>>
AttemptOtherException ==
    /\ pc = "loop"
    /\ Request("other_exception")
    /\ Return("mock")
    /\ UNCHANGED <<envVars, configVars, mainVars, restVars>>

\* what render_chat_interface can give main
RenderOutcomes == {"content", "empty", "raises"}

\* len(comments), render_chat_interface and the test of its result.  len(None)
\* raises TypeError, which main catches as any other exception.
MainRender ==
    /\ pc = "fetched"
    /\ \E r \in RenderOutcomes :
          IF result = "None" \/ r = "raises" THEN MainExit(1, "exception")
          ELSE IF r = "empty" THEN MainExit(1, "empty")
          ELSE pc' = "rendered" /\ UNCHANGED mainVars
    /\ written' = written
    /\ UNCHANGED <<envVars, configVars, loopVars, result, restVars>>

\* what update_readme can do: write the file and return True, return False,
\* raise
UpdateOutcomes == {"written", "refused", "raises"}

\* success = renderer.update_readme(chat_content) and the exit that follows
MainUpdate ==
    /\ pc = "rendered"
    /\ \E w \in UpdateOutcomes :
          /\ written' = (w = "written")
          /\ IF w = "written" THEN MainExit(0, "none")
             ELSE IF w = "refused" THEN MainExit(1, "write")
             ELSE MainExit(1, "exception")
    /\ UNCHANGED <<envVars, configVars, loopVars, result, restVars>>

NextRun ==
    \/ MainConstruct
    \/ FetchBegin
    \/ AttemptSucceeds
    \/ AttemptForbidden
    \/ AttemptRequestException
    \/ AttemptOtherException
    \/ MainRender
    \/ MainUpdate

SpecRun == InitRun /\ [][NextRun]_vars

(* C23: fetch_issue_comments always returns a list of comments, the        *)
(* fetched ones or the mock ones, whatever MAX_RETRIES the configuration   *)
(* has accepted and however the requests end: never None, never an         *)
(* exception.                                                               *)
C23_FetchReturnsList ==
    result # "none" => result \in {"comments", "mock"}

(* C24: fetch_issue_comments makes at most max_retries requests, and a     *)
(* request is followed by another one only when it ended in a              *)
(* RequestException: after the first success, the first 403 or any other   *)
(* exception no request is made.                                            *)
C24_OnlyRequestExceptionRetries ==
    /\ requests = Len(outcomes)
    /\ requests > 0 => requests <= max_retries
    /\ \A i \in 1..(Len(outcomes) - 1) : outcomes[i] = "request_exception"
    /\ (pc # "loop" /\ requests > 0 /\ outcomes[requests] # "request_exception")
           => result \in {"comments", "mock"}

\* a fetch that was retried and then ended: in a success, in a 403 or in an
\* exception that is no RequestException
C24_Witness ==
    /\ pc = "fetched"
    /\ requests > 1
    /\ outcomes[requests] # "request_exception"

\* every request so far has ended in a RequestException
AllFailed == \A i \in 1..Len(outcomes) : outcomes[i] = "request_exception"

C26_NoTokenNoRequest ==
    (~env_token.set \/ env_token.value = <<>>) =>
        /\ requests = 0
        /\ pc # "loop"
        /\ result \in {"none", "mock"}

\* a run without a token that went through fetch_issue_comments to its end
C26_Witness ==
    /\ pc = "exited"
    /\ ~env_token.set
    /\ result = "mock"
    /\ exit_status = 0

(* C28: main exits with a status other than zero when the configuration is *)
(* rejected, the rendered content is empty, the output is not written or   *)
(* an exception occurs; it exits with status zero only after the output    *)
(* file was written; and the session of a constructed renderer is closed   *)
(* before the process exits.                                                *)
C28_ExitStatusAndCleanup ==
    pc = "exited" =>
        /\ failure # "none" => exit_status # 0
        /\ exit_status = 0 => written
        /\ session # "open"
        /\ failure # "config" => session = "closed"

\* a run that made requests and then failed to write its output
C28_Witness ==
    /\ pc = "exited"
    /\ failure = "write"
    /\ requests > 0
    /\ session = "closed"
    /\ exit_status = 1

----------------------------------------------------------------------------
(* scripts/render_chat.py: update_readme                                    *)

start_marker == "["   \* "<!-- CHAT_START -->", taken as one symbol
end_marker   == "]"   \* "<!-- CHAT_END -->", taken as one symbol
til_pattern  == "T"   \* the heading "### Latest Learnings", taken as one symbol

\* the smallest index from `from` on at which s holds c, 0 if there is none
Find(s, c, from) ==
    LET hits == {i \in from..Len(s) : s[i] = c}
    IN  IF hits = {} THEN 0 ELSE CHOOSE i \in hits : \A j \in hits : i <= j

\* replacement: the markers around the fenced chat content
Replacement(chat_content) ==
    <<start_marker, NL>> \o Fence \o <<NL>> \o chat_content
        \o <<NL>> \o Fence \o <<NL, end_marker>>

\* chat_section: a heading and a line of text, then the block
chat_section(chat_content) ==
    <<NL>> \o Text(1) \o <<NL>> \o Text(1) \o <<NL, NL>>
        \o Replacement(chat_content) \o <<NL>>

\* re.sub(start.*?end, replacement, content, flags=re.DOTALL): every region
\* from a start marker to the nearest end marker after it, left to right
RECURSIVE SubRegions(_, _)
SubRegions(s, repl) ==
    LET i == Find(s, start_marker, 1)
        j == IF i = 0 THEN 0 ELSE Find(s, end_marker, i + 1)
    IN  IF i = 0 \/ j = 0 THEN s
        ELSE SubSeq(s, 1, i - 1) \o repl \o SubRegions(SubSeq(s, j + 1, Len(s)), repl)

\* re.sub(til_pattern, chat_section + '\n\1', content): before every heading
SubHeadings(s, section) ==
    Concat([i \in 1..Len(s) |->
               IF s[i] = til_pattern THEN section \o <<NL, til_pattern>> ELSE <<s[i]>>])

\* the content update_readme writes back
NewReadme(content_, chat_content) ==
    IF Find(content_, start_marker, 1) = 0
    THEN IF Find(content_, til_pattern, 1) # 0
         THEN SubHeadings(content_, chat_section(chat_content))
         ELSE content_ \o chat_section(chat_content)
    ELSE SubRegions(content_, Replacement(chat_content))

\* update_readme(chat_content) on a README that can be read: the file
\* afterwards and the returned value.  The write can fail.
update_readme(content_, chat_content, write_ok) ==
    IF write_ok
    THEN [file |-> NewReadme(content_, chat_content), returned |-> TRUE]
    ELSE [file |-> content_, returned |-> FALSE]

ReadmeChars == {NARROW, start_marker, end_marker, til_pattern}
Readmes == StringsUpTo(ReadmeChars, MaxLen)
ChatContents == StringsUpTo({WIDE}, 2) \ {<<>>}

----------------------------------------------------------------------------
(* Specification SpecReadme: one call of update_readme                      *)

InitReadme ==
    /\ pc = "start"
    /\ readme \in Readmes
    /\ chat \in ChatContents
    /\ readme_after = readme
    /\ returned = FALSE
    /\ FetchIdle /\ MainIdle /\ SanIdle
    /\ AuxIdle /\ ClipIdle /\ BubbleIdle /\ CfgIdle /\ HtmlIdle /\ ChatIdle

UpdateReadme ==
    /\ pc = "start"
    /\ \E write_ok \in BOOLEAN :
          LET r == update_readme(readme, chat, write_ok)
          IN  readme_after' = r.file /\ returned' = r.returned
    /\ pc' = "done"
    /\ UNCHANGED <<readme, chat, fetchVars, mainVars, sanVars>>
    /\ UNCHANGED <<clipVars, bubbleVars, cfgVars, htmlVars, chatVars, auxVars>>

NextReadme == UpdateReadme

SpecReadme == InitReadme /\ [][NextReadme]_vars

\* s is t with some code points left out
RECURSIVE IsSubsequence(_, _)
IsSubsequence(s, t) ==
    IF s = <<>> THEN TRUE
    ELSE IF t = <<>> THEN FALSE
    ELSE IF Head(s) = Head(t) THEN IsSubsequence(Tail(s), Tail(t))
    ELSE IsSubsequence(s, Tail(t))

\* the last index at which s holds c, 0 if there is none
FindLast(s, c) ==
    LET hits == {i \in 1..Len(s) : s[i] = c}
    IN  IF hits = {} THEN 0 ELSE CHOOSE i \in hits : \A j \in hits : j <= i

\* The text outside the marker region is kept: what stands before the first
\* start marker and after the last end marker stays where it is, and a README
\* without a start marker is still there whole, in order.
OutsideKept(before, after) ==
    LET i == Find(before, start_marker, 1)
        j == FindLast(before, end_marker)
    IN  IF i = 0 THEN IsSubsequence(before, after)
        ELSE /\ SubSeq(before, 1, i - 1) = SubSeq(after, 1, i - 1)
             /\ j > i => IsSuffix(SubSeq(before, j + 1, Len(before)), after)

(* C27: update_readme returns True only if README.md then holds the new    *)
(* chat content between the start and the end marker; the text outside the *)
(* marker region is unchanged; a second call with the same content leaves  *)
(* the file as the first call left it.  For every README, one with a start *)
(* marker and no end marker included.                                       *)
C27_ReadmeHoldsNewContent ==
    (pc = "done" /\ returned) =>
        /\ Contains(readme_after, Replacement(chat))
        /\ OutsideKept(readme, readme_after)
        /\ NewReadme(readme_after, chat) = readme_after

----------------------------------------------------------------------------
(* _sanitize_message of .github/scripts/render_chat.py, and both variants  *)
(* side by side                                                             *)

\* ' '.join(message.strip().split()): every run of white space inside the
\* stripped message becomes one space
CollapseWhitespace(s) ==
    LET t == Strip(s)
        kept == SelectSeq([i \in 1..Len(t) |-> i],
                          LAMBDA i : ~IsWs(t[i]) \/ ~IsWs(t[i - 1]))
    IN  [k \in 1..Len(kept) |-> IF IsWs(t[kept[k]]) THEN SPACE ELSE t[kept[k]]]

\* s.rfind(' ', 0, stop): the 0-based index of the last space in s[0:stop],
\* -1 if there is none
RFindSpace(s, stop) ==
    LET hits == {i \in 0..(stop - 1) : i < Len(s) /\ s[i + 1] = SPACE}
    IN  IF hits = {} THEN -1 ELSE CHOOSE i \in hits : \A j \in hits : j <= i

Dots == <<DOT, DOT, DOT>>

\* .github/scripts/render_chat.py.  ChatConfig has no max_message_length, so
\* the limit is 500.
_sanitize_message_github(message) ==
    IF message = <<>> \/ IsBlank(message) THEN EmptyMessage
    ELSE LET sanitized == CollapseWhitespace(message)
         IN  IF Len(sanitized) > max_length
             THEN LET truncate_pos == RFindSpace(sanitized, max_length - 3)
                  IN  IF truncate_pos > max_length \div 2
                      THEN SliceTo(sanitized, truncate_pos) \o Dots
                      ELSE SliceTo(sanitized, max_length - 3) \o Dots
             ELSE sanitized

\* the variant's _sanitize_message
SanitizeKeepsMaxLength(v, message) ==
    IF v = "github" THEN _sanitize_message_github(message)
    ELSE IF message = <<>> THEN EmptyMessage
    ELSE IF Len(Strip(message)) > max_length
         THEN SliceTo(Strip(message), max_length) \o Dots
         ELSE Strip(message)
Sanitize(v, message) ==
    IF v = "github" THEN _sanitize_message_github(message)
    ELSE _sanitize_message(message)

\* the text the variant measures: stripped, and in .github with its white
\* space collapsed
Normalized(v, message) ==
    IF v = "github" THEN CollapseWhitespace(message) ELSE Strip(message)

\* a message of n code points, all narrow but for a space at index p (none
\* for p = 0), after the white space in `lead`
LongMessage(n, p, lead) ==
    lead \o [i \in 1..n |-> IF i = p THEN SPACE ELSE NARROW]

\* lengths on both sides of the limit; a space on both sides of the half-way
\* test and of the end of the range rfind searches
SanLengths == (max_length - 2)..(max_length + 2)
SpacePositions ==
    {0, max_length \div 2 + 1, max_length \div 2 + 2, max_length - 3, max_length - 2}
SanMessages ==
    {LongMessage(n, p, lead) :
        n \in SanLengths, p \in SpacePositions, lead \in {<<>>, <<SPACE, NL>>}}
        \cup StringsUpTo({NARROW, SPACE, NL}, MaxLen - 1)

----------------------------------------------------------------------------
(* Specification SpecSanitize: one call of _sanitize_message                *)

InitSanitize ==
    /\ pc = "start"
    /\ variant \in Variants
    /\ txt \in SanMessages
    /\ sanitized_message = <<>>
    /\ width = 0 /\ clipped = <<>>
    /\ env_token = <<>> /\ github_token = <<>>
    /\ max_retries = 0 /\ retry_delay = 0 /\ attempt = 0 /\ requests = 0
    /\ sleeps = <<>> /\ outcomes = <<>> /\ result = "none"
    /\ MainIdle /\ ReadmeIdle
    /\ AuxIdle /\ BubbleIdle /\ CfgIdle /\ HtmlIdle /\ ChatIdle

SanitizeMessage ==
    /\ pc = "start"
    /\ sanitized_message' = Sanitize(variant, txt)
    /\ pc' = "done"
    /\ UNCHANGED <<clipVars, bubbleVars, cfgVars, htmlVars, chatVars, auxVars>>
    /\ UNCHANGED <<fetchVars, mainVars, readmeVars>>

NextSanitize == SanitizeMessage

SpecSanitize == InitSanitize /\ [][NextSanitize]_vars

\* s ends with '...'
EndsWithDots(s) == Len(s) >= 3 /\ SubSeq(s, Len(s) - 2, Len(s)) = Dots

(* C29, as stated: _sanitize_message never returns more than 500           *)
(* characters.  A message whose stripped or normalized text is longer than *)
(* 500 characters gives at most 500 characters that end with '...'; every  *)
(* shorter text is returned unchanged.                                      *)
C29_AsStated ==
    pc = "done" =>
        LET t == Normalized(variant, txt)
        IN  /\ Len(sanitized_message) <= max_length
            /\ Len(t) > max_length => EndsWithDots(sanitized_message)
            /\ Len(t) <= max_length => sanitized_message = t

(* C29, amended: as above, but the text returned unchanged is one the      *)
(* variant does not take for an empty message: the empty string (scripts)  *)
(* and a blank string (.github) give the placeholder "(empty message)".    *)
C29_LengthLimit ==
    pc = "done" =>
        LET t == Normalized(variant, txt)
            empty == IF variant = "github" THEN IsBlank(txt) ELSE txt = <<>>
        IN  /\ Len(sanitized_message) <= max_length
            /\ Len(t) > max_length => EndsWithDots(sanitized_message)
            /\ (Len(t) <= max_length /\ ~empty) => sanitized_message = t
            /\ empty => sanitized_message = EmptyMessage

\* a text longer than the limit that was cut at a word boundary
C29_Witness ==
    /\ pc = "done"
    /\ variant = "github"
    /\ Len(Normalized(variant, txt)) > max_length
    /\ Len(sanitized_message) < max_length
    /\ EndsWithDots(sanitized_message)

----------------------------------------------------------------------------
(* .github/scripts/render_chat.py: render_chat_interface, which feeds      *)
(* html_engine.create_html_chat_interface                                   *)

\* the for loop over recent_comments: a comment without 'user', 'body' or
\* 'created_at' is skipped, the body of the others is sanitized
ProcessedBodies(recent) ==
    LET kept == SelectSeq(recent, LAMBDA c : ~MissingKey(c))
    IN  [i \in 1..Len(kept) |->
            [raw |-> kept[i].body, body |-> _sanitize_message_github(kept[i].body)]]

\* The messages of the page: for each processed comment its raw body and the
\* markup format_message_content makes of the sanitized one.
render_chat_interface_github(cs, mm, ml, issue) ==
    LET processed == ProcessedBodies(_get_recent_comments(cs, mm))
    IN  [kind |-> "page",
         messages |-> [i \in 1..Len(processed) |->
                          [raw |-> processed[i].raw,
                           content |-> format_message_content(processed[i].body,
                                                              ml, issue, TRUE)]]]

\* bodies of one line and of several, and a comment without a body
PipelineBodies == StringsUpTo({NARROW, LT, NL}, MaxLen) \ {<<>>}
PipelinePool ==
    {Comment(<<NARROW>>, b, "NONE") : b \in PipelineBodies}
        \cup {[Comment(<<NARROW>>, <<>>, "NONE") EXCEPT !.has_body = FALSE]}

----------------------------------------------------------------------------
(* Specification SpecPipeline: one call of render_chat_interface of the     *)
(* HTML variant                                                             *)

InitPipeline ==
    /\ pc = "start"
    /\ AuxIdle /\ RunIdle /\ ClipIdle /\ BubbleIdle
    /\ comments \in ListsUpTo(PipelinePool, 2)
    /\ max_messages = _get_positive_int(MaxComments)
    /\ max_lines \in 1..MaxLines
    /\ issue_number = <<NARROW>>
    /\ chat_width = 0
    /\ title = <<>> /\ out = NoOut /\ bubble_width = 0
    /\ HtmlIdle

RenderHtmlChatInterface ==
    /\ pc = "start"
    /\ html' = render_chat_interface_github(comments, max_messages, max_lines,
                                            issue_number)
    /\ pc' = "done"
    /\ UNCHANGED <<clipVars, bubbleVars, cfgVars, repo_path_valid, config,
                   chatVars, auxVars, runVars>>

NextPipeline == RenderHtmlChatInterface

SpecPipeline == InitPipeline /\ [][NextPipeline]_vars

\* the lines of a raw body, as format_message_content counts them
RawLines(body) == Split(Strip(body), NL)

(* C30: in the HTML pipeline a comment whose raw body has more than        *)
(* max_lines_per_message lines is shown as its first                       *)
(* max_lines_per_message - 1 lines and the 'see full comment' link; a body *)
(* of at most max_lines_per_message lines is shown whole, with its line    *)
(* breaks.                                                                  *)
C30_RawBodyTruncatedByLines ==
    pc = "done" =>
        \A i \in 1..Len(html.messages) :
            LET m == html.messages[i]
                ls == RawLines(m.raw)
            IN  ~IsBlank(m.raw) =>
                    IF Len(ls) > max_lines
                    THEN /\ m.content.kind = "truncated"
                         /\ m.content.text
                                = escape_html(Join(SliceTo(ls, max_lines - 1), NL))
                    ELSE /\ m.content.kind = "full"
                         /\ m.content.text = ReplaceNL(escape_html(Strip(m.raw)))

=============================================================================
